---- MODULE Spec2Model ----
(***************************************************************************)
(* Model of the ESP32 firmware analysis tools:                             *)
(*   tools/firmware_analysis/extract_partition.py   (decode + extraction)  *)
(*   tools/firmware_analysis/analyze_tft_config.py  (driver signatures)    *)
(*   tools/firmware_analysis/find_init_sequences.py (command sequences)    *)
(*                                                                         *)
(* Bytes are integers 0..255, byte strings are sequences of bytes.  Python *)
(* indices are 0-based; TLA+ sequences are 1-based, so data[i] in the      *)
(* source is data[i + 1] here.  Python integers are unbounded; the inputs  *)
(* of the model keep every 32-bit field below 2^31.                        *)
(***************************************************************************)
EXTENDS Integers, Sequences, FiniteSets, TLC

VARIABLES
    raw,        \* extract_partition.main: bytes of the backup file
    pc,         \* position of the running main()
    entries,    \* extract_partition.main: list returned by the decoder
    err,        \* exception that ended the run ("none" when there is none)
    out,        \* factory_app0.bin: whether it was written, and its bytes
    rec,        \* field values a single table record was encoded from
    data,       \* firmware bytes handed to a scanner
    cmd_byte,   \* find_command_sequences: the command byte searched for
    matches,    \* find_command_sequences: the list of matches returned
    found       \* search_drivers: the dictionary returned

vars == <<raw, pc, entries, err, out, rec, data, cmd_byte, matches, found>>

----------------------------------------------------------------------------
(* Python helpers *)

Min(a, b) == IF a < b THEN a ELSE b
Max(a, b) == IF a > b THEN a ELSE b

\* s[lo:hi] for 0 <= lo, 0 <= hi: both ends are clamped to len(s).
PySlice(s, lo, hi) == SubSeq(s, Min(lo, Len(s)) + 1, Min(hi, Len(s)))

\* s[-n:] for n > 0: the last n elements, all of s when it is shorter.
PyLast(s, n) == SubSeq(s, Max(0, Len(s) - n) + 1, Len(s))

\* s[:n]
PyFirst(s, n) == SubSeq(s, 1, Min(n, Len(s)))

\* Mutant of UnpackLE: the bytes read most significant first.
UnpackBE(b) ==
    LET RECURSIVE Val(_)
        Val(k) == IF k < 1 THEN 0 ELSE b[k] + 256 * Val(k - 1)
    IN Val(Len(b))

\* struct.unpack("<H", b)[0] and struct.unpack("<I", b)[0] on a buffer of
\* the right length (the callers test the length: a wrong one raises).
UnpackLE(b) ==
    LET RECURSIVE Val(_)
        Val(k) == IF k > Len(b) THEN 0 ELSE b[k] + 256 * Val(k + 1)
    IN Val(1)

\* b.split(b"\x00", 1)[0]: the bytes before the first NUL.
RECURSIVE SplitNul(_)
SplitNul(b) ==
    IF b = <<>> \/ b[1] = 0 THEN <<>> ELSE <<b[1]>> \o SplitNul(Tail(b))

\* b.decode("ascii", "ignore"): bytes above 0x7F are dropped.
RECURSIVE DecodeAsciiIgnore(_)
DecodeAsciiIgnore(b) ==
    IF b = <<>> THEN <<>>
    ELSE IF b[1] < 128 THEN <<b[1]>> \o DecodeAsciiIgnore(Tail(b))
    ELSE DecodeAsciiIgnore(Tail(b))

HexDigit(n) == SubSeq("0123456789ABCDEF", n + 1, n + 1)

\* f"0x{n:02X}" for a byte n
Hex2(n) == "0x" \o HexDigit(n \div 16) \o HexDigit(n % 16)

----------------------------------------------------------------------------
(* extract_partition.decode_partition_table *)

Stride == 32
MAGIC == 20650      \* 0x50AA

\* type_names.get(typ, f"0x{typ:02X}")
TypeStr(typ) ==
    CASE typ = 0 -> "app"
      [] typ = 1 -> "data"
      [] OTHER   -> Hex2(typ)

\* Mutant of SubtypeStr: a type without a table of its own falls back to
\* the table of the app type.
SubtypeStrAppFallback(typ, subtype) ==
    CASE typ # 1 /\ subtype = 0   -> "factory"
      [] typ # 1 /\ subtype = 16  -> "ota_0"
      [] typ # 1 /\ subtype = 17  -> "ota_1"
      [] typ # 1 /\ subtype = 32  -> "test"
      [] typ = 1 /\ subtype = 0   -> "ota"
      [] typ = 1 /\ subtype = 1   -> "phy"
      [] typ = 1 /\ subtype = 2   -> "nvs"
      [] typ = 1 /\ subtype = 128 -> "esphttpd"
      [] typ = 1 /\ subtype = 129 -> "fat"
      [] typ = 1 /\ subtype = 130 -> "spiffs"
      [] OTHER                    -> Hex2(subtype)

\* subtype_names.get(typ, {}).get(subtype, f"0x{subtype:02X}")
SubtypeStr(typ, subtype) ==
    CASE typ = 0 /\ subtype = 0   -> "factory"
      [] typ = 0 /\ subtype = 16  -> "ota_0"
      [] typ = 0 /\ subtype = 17  -> "ota_1"
      [] typ = 0 /\ subtype = 32  -> "test"
      [] typ = 1 /\ subtype = 0   -> "ota"
      [] typ = 1 /\ subtype = 1   -> "phy"
      [] typ = 1 /\ subtype = 2   -> "nvs"
      [] typ = 1 /\ subtype = 128 -> "esphttpd"
      [] typ = 1 /\ subtype = 129 -> "fat"
      [] typ = 1 /\ subtype = 130 -> "spiffs"
      [] OTHER                    -> Hex2(subtype)

NoEntry ==
    [label |-> <<>>, type |-> "", subtype |-> "", offset |-> 0, size |-> 0,
     flags |-> 0]

\* Mutant of IsEndMarker: only a slot that is 0xFF throughout ends the table.
IsEndMarkerAllFF(entry_data) ==
    /\ Len(entry_data) = 32
    /\ \A k \in 1..32 : entry_data[k] = 255

\* The end-marker test of the loop: entry_data[:2] == b"\xff\xff".
IsEndMarker(entry_data) == PySlice(entry_data, 0, 2) = <<255, 255>>

\* The label of an entry: entry_data[12:28], cut at the first NUL, decoded.
LabelOf(entry_data) == DecodeAsciiIgnore(SplitNul(PySlice(entry_data, 12, 28)))

\* One pass through the loop body on entry_data = data[i : i + 32].
\* do is "break", "continue", "append" (of entry) or "raise" (of exc).
DecodeEntry(entry_data) ==
    IF IsEndMarker(entry_data)
    THEN [do |-> "break", exc |-> "none", entry |-> NoEntry]
    ELSE IF Len(PySlice(entry_data, 0, 2)) # 2
    THEN [do |-> "raise", exc |-> "struct.error", entry |-> NoEntry]
    ELSE IF UnpackLE(PySlice(entry_data, 0, 2)) # MAGIC
    THEN [do |-> "continue", exc |-> "none", entry |-> NoEntry]
    ELSE IF Len(entry_data) <= 3
    THEN [do |-> "raise", exc |-> "IndexError", entry |-> NoEntry]
    ELSE IF \/ Len(PySlice(entry_data, 4, 8)) # 4
            \/ Len(PySlice(entry_data, 8, 12)) # 4
            \/ Len(PySlice(entry_data, 28, 32)) # 4
    THEN [do |-> "raise", exc |-> "struct.error", entry |-> NoEntry]
    ELSE [do |-> "append", exc |-> "none",
          entry |-> [label   |-> LabelOf(entry_data),
                     type    |-> TypeStr(entry_data[3]),
                     subtype |-> SubtypeStr(entry_data[3], entry_data[4]),
                     offset  |-> UnpackLE(PySlice(entry_data, 4, 8)),
                     size    |-> UnpackLE(PySlice(entry_data, 8, 12)),
                     flags   |-> UnpackLE(PySlice(entry_data, 28, 32))]]

\* for i in range(0, len(data), 32): ...   from index i on, with the
\* entries appended so far.  A raise leaves no return value.
RECURSIVE DecodeFrom(_, _, _)
DecodeFrom(d, i, acc) ==
    IF i >= Len(d) THEN [exc |-> "none", entries |-> acc]
    ELSE LET r == DecodeEntry(PySlice(d, i, i + Stride))
         IN CASE r.do = "break"    -> [exc |-> "none", entries |-> acc]
              [] r.do = "continue" -> DecodeFrom(d, i + Stride, acc)
              [] r.do = "append"   ->
                    DecodeFrom(d, i + Stride, Append(acc, r.entry))
              [] OTHER             -> [exc |-> r.exc, entries |-> <<>>]

decode_partition_table(d) == DecodeFrom(d, 0, <<>>)

----------------------------------------------------------------------------
(* extract_partition.main *)

TableBase == 32768   \* 0x8000
TableLen == 3072     \* 0xC00

\* The backup file is held as [exists, fill, body]: whether the path
\* exists, and its bytes: the first `fill` bytes are the fixed pattern
\* FillByte, the bytes after them are `body`.
FillByte(i) == (i * 7 + 3) % 251

RawLen(r) == r.fill + Len(r.body)

RawAt(r, i) == IF i < r.fill THEN FillByte(i) ELSE r.body[i - r.fill + 1]

\* r[lo:hi] on the file's bytes (clamped like every Python slice)
RawSlice(r, lo, hi) ==
    LET a == Min(lo, RawLen(r))
        b == Min(hi, RawLen(r))
    IN [k \in 1..Max(0, b - a) |-> RawAt(r, a + k - 1)]

\* part_data = raw[0x8000 : 0x8000 + 0xC00]
PartData(r) == RawSlice(r, TableBase, TableBase + TableLen)

\* Mutant of FactoryIndex: the last factory entry instead of the first.
LastFactoryIndex(es) ==
    IF \E j \in 1..Len(es) : es[j].subtype = "factory"
    THEN CHOOSE j \in 1..Len(es) :
            /\ es[j].subtype = "factory"
            /\ \A h \in (j + 1)..Len(es) : es[h].subtype # "factory"
    ELSE 0

\* next((e for e in entries if e["subtype"] == "factory"), None), as the
\* index of the entry found (0 for None)
FactoryIndex(es) ==
    IF \E j \in 1..Len(es) : es[j].subtype = "factory"
    THEN CHOOSE j \in 1..Len(es) :
            /\ es[j].subtype = "factory"
            /\ \A h \in 1..(j - 1) : es[h].subtype # "factory"
    ELSE 0

\* raw[factory_app["offset"] : factory_app["offset"] + factory_app["size"]]
AppData(r, e) == RawSlice(r, e.offset, e.offset + e.size)

NotWritten == [written |-> FALSE, bytes |-> <<>>]

NoFile == [exists |-> FALSE, fill |-> 0, body |-> <<>>]

\* if not backup_path.exists(): print(...); return
BackupMissing ==
    /\ pc = "start"
    /\ ~raw.exists
    /\ pc' = "done"
    /\ UNCHANGED <<raw, entries, err, out, rec, data, cmd_byte, matches, found>>

\* entries = decode_partition_table(part_data), returning
DecodeReturns ==
    /\ pc = "start"
    /\ raw.exists
    /\ decode_partition_table(PartData(raw)).exc = "none"
    /\ entries' = decode_partition_table(PartData(raw)).entries
    /\ pc' = "decoded"
    /\ UNCHANGED <<raw, err, out, rec, data, cmd_byte, matches, found>>

\* entries = decode_partition_table(part_data), raising: main() ends there
DecodeRaises ==
    /\ pc = "start"
    /\ raw.exists
    /\ decode_partition_table(PartData(raw)).exc # "none"
    /\ err' = decode_partition_table(PartData(raw)).exc
    /\ pc' = "raised"
    /\ UNCHANGED <<raw, entries, out, rec, data, cmd_byte, matches, found>>

\* if not entries: print(...); return
NoPartitions ==
    /\ pc = "decoded"
    /\ entries = <<>>
    /\ pc' = "done"
    /\ UNCHANGED <<raw, entries, err, out, rec, data, cmd_byte, matches, found>>

\* the table is printed, a factory entry is found and written out
ExtractFactory ==
    /\ pc = "decoded"
    /\ entries # <<>>
    /\ FactoryIndex(entries) # 0
    /\ out' = [written |-> TRUE,
               bytes |-> AppData(raw, entries[FactoryIndex(entries)])]
    /\ pc' = "done"
    /\ UNCHANGED <<raw, entries, err, rec, data, cmd_byte, matches, found>>

\* the table is printed, factory_app is None: nothing more is done
NoFactory ==
    /\ pc = "decoded"
    /\ entries # <<>>
    /\ FactoryIndex(entries) = 0
    /\ pc' = "done"
    /\ UNCHANGED <<raw, entries, err, out, rec, data, cmd_byte, matches, found>>

----------------------------------------------------------------------------
(* Backup files the extraction is run on *)

MaxSlots == 3

LE32(v) ==
    <<v % 256, (v \div 256) % 256, (v \div 65536) % 256,
      (v \div 16777216) % 256>>

RECURSIVE Zeros(_)
Zeros(n) == IF n <= 0 THEN <<>> ELSE <<0>> \o Zeros(n - 1)

RECURSIVE Repeat(_, _)
Repeat(s, n) == IF n <= 0 THEN <<>> ELSE s \o Repeat(s, n - 1)

\* A 32-byte table slot in the layout of the partition table.
EncodeEntry(magic2, typ, subtype, offset, size, label, flags) ==
    magic2 \o <<typ, subtype>> \o LE32(offset) \o LE32(size)
        \o label \o Zeros(16 - Len(label)) \o LE32(flags)

GoodMagic == <<170, 80>>

SlotFactoryA ==
    EncodeEntry(GoodMagic, 0, 0, 32800, 16, <<102, 97, 99, 116, 111, 114, 121>>, 0)
SlotFactoryB ==
    EncodeEntry(GoodMagic, 0, 0, 32760, 12, <<97, 112, 112, 48>>, 1)
SlotDataOta ==
    EncodeEntry(GoodMagic, 1, 0, 32768, 8, <<111, 116, 97>>, 0)
SlotUnknownType ==
    EncodeEntry(GoodMagic, 2, 0, 32776, 8, <<97, 233, 98>>, 258)
SlotOta0 ==
    EncodeEntry(GoodMagic, 0, 16, 65536, 4, <<111, 116, 97, 95, 48>>, 0)
SlotSwappedMagic ==
    EncodeEntry(<<80, 170>>, 0, 0, 32800, 16, <<102, 97, 99, 116, 111, 114, 121>>, 0)
SlotHalfErased ==
    EncodeEntry(<<255, 80>>, 0, 0, 32768, 4, <<120>>, 0)
SlotErased == Repeat(<<255>>, 32)

Slots ==
    {SlotFactoryA, SlotFactoryB, SlotDataOta, SlotUnknownType, SlotOta0,
     SlotSwappedMagic, SlotHalfErased, SlotErased}

\* Lengths a trailing slot is cut to.
Cuts == {1, 2, 3, 7, 31, 32}

RECURSIVE Flatten(_)
Flatten(ss) == IF ss = <<>> THEN <<>> ELSE Head(ss) \o Flatten(Tail(ss))

Tables ==
    {<<>>} \cup
    UNION {{PyFirst(Flatten(ss), 32 * (n - 1) + c) : ss \in [1..n -> Slots], c \in Cuts}
           : n \in 1..MaxSlots}

\* A table region filled to its end with skipped slots, and a factory entry
\* in the file right after the region.
LongTable == Repeat(SlotSwappedMagic, 96) \o SlotFactoryA

\* A file that ends before the table region starts.
ShortFile == [exists |-> TRUE, fill |-> 4096, body |-> SlotFactoryA]

Init ==
    /\ raw \in {[exists |-> TRUE, fill |-> TableBase, body |-> b] :
                    b \in Tables \cup {LongTable}}
                \cup {ShortFile, NoFile}
    /\ pc = "start"
    /\ entries = <<>>
    /\ err = "none"
    /\ out = NotWritten
    /\ rec = NoEntry
    /\ data = <<>>
    /\ cmd_byte = 0
    /\ matches = <<>>
    /\ found = <<>>

Next ==
    \/ BackupMissing
    \/ DecodeReturns
    \/ DecodeRaises
    \/ NoPartitions
    \/ ExtractFactory
    \/ NoFactory

Spec == Init /\ [][Next]_vars

----------------------------------------------------------------------------
(* What the claims say about a table buffer d, read off its bytes *)

NumSlots(d) == (Len(d) + 31) \div 32

SentinelAt(d, k) ==
    /\ Len(d) >= 32 * k + 2
    /\ d[32 * k + 1] = 255
    /\ d[32 * k + 2] = 255

MagicAt(d, k) ==
    /\ Len(d) >= 32 * k + 2
    /\ d[32 * k + 1] = 170
    /\ d[32 * k + 2] = 80

HasSentinel(d) == \E k \in 0..(NumSlots(d) - 1) : SentinelAt(d, k)

FirstSentinel(d) ==
    CHOOSE k \in 0..(NumSlots(d) - 1) :
        /\ SentinelAt(d, k)
        /\ \A h \in 0..(k - 1) : ~SentinelAt(d, h)

\* The slots before the first sentinel (all of them when there is none).
TableEnd(d) == IF HasSentinel(d) THEN FirstSentinel(d) ELSE NumSlots(d)

\* The slots with magic 0x50AA among slots from..(to - 1), ascending.
RECURSIVE MagicSlots(_, _, _)
MagicSlots(d, from, to) ==
    IF from >= to THEN <<>>
    ELSE IF MagicAt(d, from) THEN <<from>> \o MagicSlots(d, from + 1, to)
    ELSE MagicSlots(d, from + 1, to)

\* The little-endian 32-bit value at byte position p (0-based) of d.
FieldLE32(d, p) ==
    d[p + 1] + 256 * d[p + 2] + 65536 * d[p + 3] + 16777216 * d[p + 4]

\* The buffer without its partial trailing slot.
WholeSlots(d) == SubSeq(d, 1, 32 * (Len(d) \div 32))

Decoded == pc \in {"decoded", "done"}

----------------------------------------------------------------------------
(* Claims about extract_partition.py *)

\* C1 (as claimed): decode_partition_table raises no error on any buffer;
\* a partial trailing slot is not inspected and the result is the list
\* decoded from the complete slots before it.
C1_NeverRaises ==
    pc # "start" =>
        /\ err = "none"
        /\ pc # "raised"
        /\ entries = decode_partition_table(WholeSlots(PartData(raw))).entries

\* C2 (as claimed): the extracted sub-image is length-exact: it is written
\* only when offset + size lies within the flash image, its length is the
\* record's size and its bytes are flash[offset .. offset + size - 1].
C2_LengthExact ==
    out.written =>
        LET e == entries[FactoryIndex(entries)]
        IN /\ e.offset + e.size <= RawLen(raw)
           /\ Len(out.bytes) = e.size
           /\ \A k \in 1..e.size : out.bytes[k] = RawAt(raw, e.offset + k - 1)

\* C3 (as claimed): with the first sentinel slot at stride k the decoder
\* returns exactly k records.
C3_ExactlyK ==
    (Decoded /\ HasSentinel(PartData(raw))) =>
        Len(entries) = FirstSentinel(PartData(raw))

\* Bytes put in place of everything after the sentinel's two 0xFF bytes.
Tails ==
    {<<>>, <<0>>, Repeat(<<255>>, 30), Zeros(30) \o SlotFactoryA,
     Repeat(<<255>>, 30) \o SlotFactoryB \o SlotDataOta,
     Zeros(30) \o <<170, 80>>, Zeros(30) \o <<7>>}

\* C3 (amended): with the first sentinel slot at stride k the decoder
\* raises nothing and returns one record per slot with magic 0x50AA among
\* the k slots before it (so at most k, and exactly k when all of them
\* carry the magic), and the result does not depend on the bytes from the
\* sentinel slot's third byte on.
C3_SentinelEndsTable ==
    (pc # "start" /\ HasSentinel(PartData(raw))) =>
        LET d == PartData(raw)
            k == FirstSentinel(d)
        IN /\ Decoded
           /\ Len(entries) = Len(MagicSlots(d, 0, k))
           /\ Len(entries) <= k
           /\ \A t \in Tails :
                decode_partition_table(SubSeq(d, 1, 32 * k + 2) \o t)
                    = [exc |-> "none", entries |-> entries]

\* C3 witness: a sentinel at stride 2 after one valid and one skipped slot,
\* with bytes following the sentinel's first two.
C3_Witness ==
    /\ pc = "decoded"
    /\ HasSentinel(PartData(raw))
    /\ FirstSentinel(PartData(raw)) = 2
    /\ Len(entries) = 1
    /\ Len(PartData(raw)) > 66

\* C4 (as claimed): slots without the magic are skipped without error and
\* the output is exactly one record per slot with magic 0x50AA before the
\* first sentinel, in ascending slot order.
C4_ExactlyMagicSlots ==
    pc # "start" =>
        LET d == PartData(raw)
            ms == MagicSlots(d, 0, TableEnd(d))
        IN /\ err = "none"
           /\ Len(entries) = Len(ms)
           /\ \A j \in 1..Len(ms) :
                /\ entries[j].offset = FieldLE32(d, 32 * ms[j] + 4)
                /\ entries[j].size = FieldLE32(d, 32 * ms[j] + 8)
                /\ entries[j].flags = FieldLE32(d, 32 * ms[j] + 28)

\* C5: the extraction acts on the first entry, in table order, whose
\* subtype is "factory"; without such an entry (an empty list included)
\* nothing is written.
C5_FirstFactory ==
    /\ out.written =>
        /\ pc = "done"
        /\ \E j \in 1..Len(entries) :
            /\ entries[j].subtype = "factory"
            /\ \A h \in 1..(j - 1) : entries[h].subtype # "factory"
            /\ out.bytes = RawSlice(raw, entries[j].offset,
                                    entries[j].offset + entries[j].size)
    /\ (\A j \in 1..Len(entries) : entries[j].subtype # "factory") =>
        out = NotWritten
    /\ (pc = "done" /\ \E j \in 1..Len(entries) : entries[j].subtype = "factory")
        => out.written

\* C5 witness: two factory entries with different ranges, the first written.
C5_Witness ==
    /\ out.written
    /\ Len(entries) >= 2
    /\ entries[1].subtype = "factory"
    /\ entries[2].subtype = "factory"
    /\ AppData(raw, entries[1]) # AppData(raw, entries[2])
    /\ out.bytes # <<>>

\* C10: an entry is categorised "factory" exactly when its slot's type byte
\* and subtype byte are both 0x00; subtype 0x00 is "ota" under type 0x01 and
\* "0x00" under any other type; so the slot whose range is written out is
\* an app slot of subtype 0x00.
C10_FactoryIffAppZero ==
    Decoded =>
        LET d == PartData(raw)
            ms == MagicSlots(d, 0, TableEnd(d))
        IN /\ Len(entries) = Len(ms)
           /\ \A j \in 1..Len(ms) :
                LET typ == d[32 * ms[j] + 3]
                    subtype == d[32 * ms[j] + 4]
                IN /\ entries[j].subtype = "factory" <=> (typ = 0 /\ subtype = 0)
                   /\ (typ = 1 /\ subtype = 0) => entries[j].subtype = "ota"
                   /\ (typ \notin {0, 1} /\ subtype = 0) =>
                        entries[j].subtype = "0x00"
           /\ out.written =>
                \E j \in 1..Len(ms) :
                    /\ d[32 * ms[j] + 3] = 0
                    /\ d[32 * ms[j] + 4] = 0
                    /\ out.bytes = AppData(raw, entries[j])

\* C10 witness: a data slot and a slot of unknown type, both of subtype
\* 0x00, precede the factory slot that is written out.
C10_Witness ==
    /\ out.written
    /\ Len(entries) = 3
    /\ entries[1].subtype = "ota"
    /\ entries[2].subtype = "0x00"
    /\ entries[3].subtype = "factory"

----------------------------------------------------------------------------
(* decode_partition_table on a single encoded record *)

MaxLabel == 3

\* Field values the record is encoded from: each below 2^31.
FieldValues == {0, 1, 255, 256, 65536, 16909060, 2147483647}

\* Label bytes: NUL, an ASCII letter, a byte above 0x7F.
LabelBytes == {0, 97, 233}

Labels ==
    UNION {[1..n -> LabelBytes] : n \in 0..MaxLabel}
        \cup {[k \in 1..16 |-> 64 + k], [k \in 1..16 |-> IF k = 9 THEN 200 ELSE 64 + k]}

InitRecord ==
    /\ rec \in [offset : FieldValues, size : FieldValues, flags : FieldValues,
                label : Labels, typ : {0, 1}, subtype : {0}]
    /\ data = EncodeEntry(GoodMagic, rec.typ, rec.subtype, rec.offset, rec.size,
                          rec.label, rec.flags)
    /\ pc = "start"
    /\ entries = <<>>
    /\ err = "none"
    /\ raw = NoFile
    /\ out = NotWritten
    /\ cmd_byte = 0
    /\ matches = <<>>
    /\ found = <<>>

\* entries = decode_partition_table(data)
DecodeRecord ==
    /\ pc = "start"
    /\ entries' = decode_partition_table(data).entries
    /\ err' = decode_partition_table(data).exc
    /\ pc' = "decoded"
    /\ UNCHANGED <<raw, out, rec, data, cmd_byte, matches, found>>

NextRecord == DecodeRecord

SpecRecord == InitRecord /\ [][NextRecord]_vars

\* The bytes of s before its first NUL (all of s when it has none).
BeforeNul(s) ==
    IF \E k \in 1..Len(s) : s[k] = 0
    THEN SubSeq(s, 1, (CHOOSE k \in 1..Len(s) :
                          s[k] = 0 /\ \A h \in 1..(k - 1) : s[h] # 0) - 1)
    ELSE s

IsAscii(b) == b < 128

\* C9 (as claimed): the one record decoded from an encoded record has the
\* encoded offset, size and flags, and its label is the label bytes up to
\* the first NUL.
C9_RoundTrip ==
    pc = "decoded" =>
        /\ err = "none"
        /\ Len(entries) = 1
        /\ entries[1].offset = rec.offset
        /\ entries[1].size = rec.size
        /\ entries[1].flags = rec.flags
        /\ entries[1].label = BeforeNul(rec.label)

\* C9 (amended): the one record decoded has the encoded offset, size and
\* flags, and its label is the label bytes up to the first NUL without the
\* bytes above 0x7F; when those label bytes are all ASCII the label is
\* exactly them, and encoding the decoded fields again gives the same bytes
\* at positions 4..11, 28..31 and the same label bytes.
C9_RoundTripAscii ==
    pc = "decoded" =>
        /\ err = "none"
        /\ Len(entries) = 1
        /\ entries[1].offset = rec.offset
        /\ entries[1].size = rec.size
        /\ entries[1].flags = rec.flags
        /\ entries[1].label = SelectSeq(BeforeNul(rec.label), IsAscii)
        /\ (\A k \in 1..Len(BeforeNul(rec.label)) : IsAscii(rec.label[k])) =>
            LET e == entries[1]
                again == EncodeEntry(GoodMagic, rec.typ, rec.subtype, e.offset,
                                     e.size, e.label, e.flags)
            IN /\ e.label = BeforeNul(rec.label)
               /\ SubSeq(again, 5, 12) = SubSeq(data, 5, 12)
               /\ SubSeq(again, 29, 32) = SubSeq(data, 29, 32)
               /\ SubSeq(again, 13, 12 + Len(e.label)) = BeforeNul(rec.label)

\* C9 witness: a record with a four-byte offset, distinct size and flags and
\* a label that has a byte above 0x7F before an ASCII byte and a NUL.
C9_Witness ==
    /\ pc = "decoded"
    /\ rec.offset = 16909060
    /\ rec.size = 65536
    /\ rec.flags = 2147483647
    /\ rec.label = <<233, 97, 0>>
    /\ entries[1].label = <<97>>

----------------------------------------------------------------------------
(* analyze_tft_config.search_drivers *)

\* The drivers list, each name with its driver.encode("ascii").
Drivers ==
    <<[name |-> "ILI9341", pattern |-> <<73, 76, 73, 57, 51, 52, 49>>],
      [name |-> "ILI9488", pattern |-> <<73, 76, 73, 57, 52, 56, 56>>],
      [name |-> "ST7789", pattern |-> <<83, 84, 55, 55, 56, 57>>],
      [name |-> "ST7735", pattern |-> <<83, 84, 55, 55, 51, 53>>],
      [name |-> "ILI9163", pattern |-> <<73, 76, 73, 57, 49, 54, 51>>],
      [name |-> "GC9A01", pattern |-> <<71, 67, 57, 65, 48, 49>>],
      [name |-> "ST7796", pattern |-> <<83, 84, 55, 55, 57, 54>>],
      [name |-> "HX8357D", pattern |-> <<72, 88, 56, 51, 53, 55, 68>>]>>

\* Mutant of Lower: the search without re.IGNORECASE.
LowerCaseSensitive(b) == b

\* re.IGNORECASE on a bytes pattern: ASCII letters compare by their
\* lower-case form, every other byte by its value.
Lower(b) == IF b >= 65 /\ b <= 90 THEN b + 32 ELSE b

\* Whether the (literal) pattern matches d at 0-based position pos.
MatchesAt(pattern, d, pos) ==
    /\ pos + Len(pattern) <= Len(d)
    /\ \A k \in 1..Len(pattern) : Lower(d[pos + k]) = Lower(pattern[k])

\* [m.start() for m in re.finditer(pattern, d, re.IGNORECASE)] from pos on:
\* the scan goes left to right and resumes at the end of each match.
RECURSIVE FindIter(_, _, _)
FindIter(pattern, d, pos) ==
    IF pos + Len(pattern) > Len(d) THEN <<>>
    ELSE IF MatchesAt(pattern, d, pos)
    THEN <<pos>> \o FindIter(pattern, d, pos + Len(pattern))
    ELSE FindIter(pattern, d, pos + 1)

\* found: a dictionary from the names with at least one match to the
\* number of matches.
search_drivers(d) ==
    LET hits(j) == FindIter(Drivers[j].pattern, d, 0)
        present == {j \in 1..Len(Drivers) : hits(j) # <<>>}
    IN [n \in {Drivers[j].name : j \in present} |->
            Len(hits(CHOOSE j \in present : Drivers[j].name = n))]

MaxChunks == 3

\* Pieces the scanned firmware is put together from: driver names in upper,
\* lower and mixed case, fragments of them, and other bytes.
Chunks ==
    {<<73, 76, 73, 57, 51, 52, 49>>, <<105, 108, 105, 57, 51, 52, 49>>,
     <<73, 108, 73, 57, 51, 52, 49>>, <<73, 76, 73, 57, 51, 52>>, <<49>>,
     <<73, 76>>, <<83, 84, 55, 55, 56, 57>>, <<115, 116, 55, 55>>,
     <<57, 54>>, <<104, 120, 56, 51, 53, 55, 100>>, <<0>>, <<201, 108, 73>>}

Firmwares == UNION {{Flatten(cs) : cs \in [1..n -> Chunks]} : n \in 0..MaxChunks}

InitDrivers ==
    /\ data \in Firmwares
    /\ pc = "start"
    /\ found = <<>>
    /\ raw = NoFile
    /\ entries = <<>>
    /\ err = "none"
    /\ out = NotWritten
    /\ rec = NoEntry
    /\ cmd_byte = 0
    /\ matches = <<>>

\* drivers = search_drivers(data)
SearchDrivers ==
    /\ pc = "start"
    /\ found' = search_drivers(data)
    /\ pc' = "done"
    /\ UNCHANGED <<raw, entries, err, out, rec, data, cmd_byte, matches>>

NextDrivers == SearchDrivers

SpecDrivers == InitDrivers /\ [][NextDrivers]_vars

\* Two bytes that are the same ASCII letter in either case, or equal.
SameLetter(a, b) ==
    \/ a = b
    \/ a >= 65 /\ a <= 90 /\ b = a + 32
    \/ b >= 65 /\ b <= 90 /\ a = b + 32

\* The start positions at which the signature occurs in d in any case.
Occurrences(sig, d) ==
    {p \in 0..(Len(d) - Len(sig)) :
        \A k \in 1..Len(sig) : SameLetter(d[p + k], sig[k])}

\* C6: search_drivers reports, for each signature, the number of start
\* positions at which it occurs case-insensitively (every start position
\* counted), and leaves out the signatures that do not occur.
C6_CountsEveryOccurrence ==
    pc = "done" =>
        /\ DOMAIN found \subseteq {Drivers[j].name : j \in 1..Len(Drivers)}
        /\ \A j \in 1..Len(Drivers) :
            LET n == Cardinality(Occurrences(Drivers[j].pattern, data))
            IN IF n = 0 THEN Drivers[j].name \notin DOMAIN found
               ELSE /\ Drivers[j].name \in DOMAIN found
                    /\ found[Drivers[j].name] = n

\* C6 witness: ILI9341 occurs twice, once in upper and once in lower case,
\* and the result is {ILI9341: 2}.
C6_Witness ==
    /\ pc = "done"
    /\ DOMAIN found = {"ILI9341"}
    /\ found["ILI9341"] = 2
    /\ \E k \in 1..Len(data) : data[k] = 105
    /\ \E k \in 1..Len(data) : data[k] = 73

----------------------------------------------------------------------------
(* find_init_sequences.find_command_sequences and the loop of its main *)

\* key_commands, in the order of the dictionary
KeyCommands == <<17, 58, 54, 41>>

\* nearby_cmds
NearbyCmds == {17, 41, 54, 58, 177, 182, 192, 193, 197, 224, 225}

\* context_before = data[start:i] with start = max(0, i - 10)
ContextBefore(d, i) == PySlice(d, Max(0, i - 10), i)

\* Mutant of ContextAfter: the window ends at i + 10.
ContextAfterTen(d, i) == PySlice(d, i + 1, Min(Len(d), i + 10))

\* context_after = data[i + 1 : end] with end = min(len(data), i + 20)
ContextAfter(d, i) == PySlice(d, i + 1, Min(Len(d), i + 20))

\* Mutant of LooksLikeCommand: the value 10 counts as a small value too.
LooksLikeCommandUpToTen(b, nearby_cmds) == b \in nearby_cmds \/ b <= 10

\* b in nearby_cmds or b < 10
LooksLikeCommand(b, nearby_cmds) == b \in nearby_cmds \/ b < 10

\* any(... for b in context_after[:5])
IsSequence(d, i, nearby_cmds) ==
    LET head == PyFirst(ContextAfter(d, i), 5)
    IN \E k \in 1..Len(head) : LooksLikeCommand(head[k], nearby_cmds)

\* the dictionary appended for a match at i
MatchAt(d, i) ==
    [offset |-> i,
     before |-> PyLast(ContextBefore(d, i), 10),
     after  |-> PyFirst(ContextAfter(d, i), 15)]

\* for i in range(len(data)): ...   from index i on
RECURSIVE ScanFrom(_, _, _, _)
ScanFrom(d, cmd, nearby_cmds, i) ==
    IF i >= Len(d) THEN <<>>
    ELSE IF d[i + 1] = cmd /\ IsSequence(d, i, nearby_cmds)
    THEN <<MatchAt(d, i)>> \o ScanFrom(d, cmd, nearby_cmds, i + 1)
    ELSE ScanFrom(d, cmd, nearby_cmds, i + 1)

find_command_sequences(d, cmd, nearby_cmds) == ScanFrom(d, cmd, nearby_cmds, 0)

MaxCore == 4

\* Bytes of the part of the firmware where commands occur: two command
\* bytes, a small parameter value, and the value 10.
CoreBytes == {17, 41, 9, 10}

Cores == UNION {[1..n -> CoreBytes] : n \in 0..MaxCore}

\* n bytes that are neither commands nor small values, all different.
Padding(n) == [k \in 1..n |-> 100 + k]

Prefixes == {Padding(0), Padding(4), Padding(11), <<17, 10, 10, 10, 10, 10>>}

Suffixes ==
    {Padding(0), Padding(14), Padding(21), <<177>>,
     <<10, 10, 177>> \o Padding(3)}

InitSeq ==
    /\ data \in {p \o c \o t : p \in Prefixes, c \in Cores, t \in Suffixes}
    /\ pc = "start"
    /\ cmd_byte = 0
    /\ matches = <<>>
    /\ raw = NoFile
    /\ entries = <<>>
    /\ err = "none"
    /\ out = NotWritten
    /\ rec = NoEntry
    /\ found = <<>>

\* One pass of "for cmd_byte, description in key_commands.items()":
\* matches = find_command_sequences(data, cmd_byte, description, nearby_cmds)
ScanCommand ==
    /\ pc \in {"start", "scanning"}
    /\ \E j \in 1..Len(KeyCommands) :
        /\ IF pc = "start" THEN j = 1 ELSE j > 1 /\ KeyCommands[j - 1] = cmd_byte
        /\ cmd_byte' = KeyCommands[j]
        /\ matches' = find_command_sequences(data, KeyCommands[j], NearbyCmds)
        /\ pc' = IF j = Len(KeyCommands) THEN "done" ELSE "scanning"
    /\ UNCHANGED <<raw, entries, err, out, rec, data, found>>

NextSeq == ScanCommand

SpecSeq == InitSeq /\ [][NextSeq]_vars

Scanned == pc \in {"scanning", "done"}

\* C7 (as claimed): a reported site at offset i carries the min(10, i)
\* bytes before i and the min(20, len - 1 - i) bytes after i.
C7_TwentyAfter ==
    Scanned =>
        \A j \in 1..Len(matches) :
            LET i == matches[j].offset
            IN /\ matches[j].before = SubSeq(data, i - Min(10, i) + 1, i)
               /\ Len(matches[j].after) = Min(20, Len(data) - 1 - i)
               /\ matches[j].after = SubSeq(data, i + 2, i + 1 + Min(20, Len(data) - 1 - i))

\* C7 (amended): a reported site at offset i carries the min(10, i) bytes
\* immediately before i and the min(15, len - 1 - i) bytes immediately
\* after i.
C7_FifteenAfter ==
    Scanned =>
        \A j \in 1..Len(matches) :
            LET i == matches[j].offset
            IN /\ Len(matches[j].before) = Min(10, i)
               /\ matches[j].before = SubSeq(data, i - Min(10, i) + 1, i)
               /\ Len(matches[j].after) = Min(15, Len(data) - 1 - i)
               /\ matches[j].after = SubSeq(data, i + 2, i + 1 + Min(15, Len(data) - 1 - i))

\* C7 witness: a site with more than 10 bytes before it and more than 20
\* after it, and in the same result a site closer to the end.
C7_Witness ==
    /\ Scanned
    /\ \E j \in 1..Len(matches) :
        /\ matches[j].offset > 10
        /\ Len(data) - 1 - matches[j].offset > 20
        /\ Len(matches[j].before) = 10
        /\ Len(matches[j].after) = 15

\* Whether position i (0-based) is a site the claim says is reported.
Qualifies(i) ==
    /\ data[i + 1] = cmd_byte
    /\ \E k \in (i + 1)..Min(i + 5, Len(data) - 1) :
        data[k + 1] \in NearbyCmds \/ data[k + 1] < 10

\* C8: position i is reported exactly when data[i] is the command byte and
\* one of the bytes at i+1..i+5 is a reference opcode or below 10; the
\* offsets are strictly ascending (so each is reported once), and the last
\* byte of the buffer is never reported.
C8_ReportedIffQualifies ==
    Scanned =>
        /\ \A i \in 0..(Len(data) - 1) :
            (\E j \in 1..Len(matches) : matches[j].offset = i) <=> Qualifies(i)
        /\ \A j \in 1..Len(matches) : matches[j].offset \in 0..(Len(data) - 2)
        /\ \A j \in 1..(Len(matches) - 1) : matches[j].offset < matches[j + 1].offset

\* C8 witness: two sites are reported, an occurrence of the command byte
\* followed by five bytes of 10 or more outside the set and then by a
\* reference opcode is not, and the buffer ends with the command byte.
C8_Witness ==
    /\ Scanned
    /\ Len(matches) = 2
    /\ data[Len(data)] = cmd_byte
    /\ \E i \in 0..(Len(data) - 7) :
        /\ data[i + 1] = cmd_byte
        /\ data[i + 7] \in NearbyCmds
        /\ \A j \in 1..Len(matches) : matches[j].offset # i

====
